---------------------------- MODULE Spec2Model ----------------------------
(***************************************************************************)
(* MatSelect AI: construction (MatSelectAI.__init__ with the adapter's     *)
(* status check), the recommendation pipeline (MatSelectAI.recommend:      *)
(* adapter search -> _apply_filters -> _score_materials -> head(top_n) ->  *)
(* _enrich_materials) and the what-if comparator (MatSelectAI.what_if).    *)
(*                                                                         *)
(* Units.  density is in g/cm^3, band_gap in eV, formation_energy in       *)
(* eV/atom, energy_above_hull in hundredths of an eV/atom (so the code's   *)
(* 0.1 is 10 and its 0.02 is 2).  A match_score is [points, eps]: the      *)
(* score is points / ScoreDen plus eps / ScoreDen times the 1e-10 of the   *)
(* density normalisation, to the first order in it.  Integers keep every   *)
(* quotient of the scoring formulas exact (ScoresExact states that); the   *)
(* rounding of the code's floats, of the order of 1e-14, is not modelled.  *)
(* A percentage delta is an integer number of tenths of a percent.         *)
(*                                                                         *)
(* A pandas DataFrame is [columns, rows]: pd.DataFrame() and               *)
(* pd.DataFrame([]) have neither columns nor rows.  Of a row only the      *)
(* fields the core reads are kept (formula, composition, crystal_system    *)
(* and is_theoretical are carried through untouched by the code).          *)
(***************************************************************************)
EXTENDS Integers, Sequences, FiniteSets, TLC

VARIABLES
    ai,          \* the MatSelectAI: how its construction went
    tieOrder,    \* how this build's argsort orders rows whose keys are equal
    op,          \* the call made last
    rq,          \* recommend: the arguments and the adapter's documents
    lc,          \* recommend: its locals (candidates, filtered, scored, top)
    ret,         \* recommend: what the call gave its caller
    ret2,        \* recommend: what the same call gave when repeated
    wq,          \* what_if: the arguments
    wret,        \* what_if: what the call gave its caller
    eq,          \* _enrich_materials: the frame it was given
    eret         \* _enrich_materials: the frame it gave back

vars == <<ai, tieOrder, op, rq, lc, ret, ret2, wq, wret, eq, eret>>

----------------------------------------------------------------------------
(* Bounds of the model *)

MaxCandidates == 2
MaxAlternatives == 2

(* Program constants *)

SearchLimit == 100
StabilityCeiling == 10
StabilityNorm == 10
WeightPoints == 30
StabilityPoints == 40
BandGapPoints == 30
BaselinePoints == 10
LightweightBelow == 5
HighlyStableBelow == 2
DefaultDensity == 10
DefaultHull == 100
PercentFactor == 100

(* Resolution of a score: 1/ScoreDen of a point *)
ScoreDen == 3 * 4

Absent == -1

----------------------------------------------------------------------------
(* The remote database and the values a caller passes *)

Material(id, d, e, bg, fe, st) ==
    [mp_id |-> id, density |-> d, energy_above_hull |-> e, band_gap |-> bg,
     formation_energy |-> fe, is_stable |-> st]

MPDatabase ==
    { Material("mp-1", 2, 0, 0, 0, TRUE),
      Material("mp-2", 6, 0, 2, -2, TRUE),
      Material("mp-3", 6, 5, 1, -1, FALSE),
      Material("mp-4", 4, 10, 2, -2, FALSE),
      Material("mp-5", 2, 15, 0, 1, FALSE),
      Material("mp-6", 4, 5, 3, -4, TRUE) }

MissingId == "mp-0"

MaterialIds == {m.mp_id : m \in MPDatabase} \cup {MissingId}

(* What the remote service can answer a search with: documents with      *)
(* distinct identifiers, in any order.  The service is not part of the   *)
(* repository, so its answer is not narrowed by the criteria sent to it. *)
DocLists ==
    UNION { { s \in [1..n -> MPDatabase] :
                \A i, j \in 1..n : i # j => s[i].mp_id # s[j].mp_id } :
            n \in 0..MaxCandidates }

Requirements ==
    [max_density : {Absent, 4}, min_band_gap : {Absent, 1}]

NoObjectives == [isNone |-> TRUE, items |-> <<>>]

Objectives ==
    { NoObjectives,
      [isNone |-> FALSE, items |-> <<>>],
      [isNone |-> FALSE, items |-> <<"weight">>],
      [isNone |-> FALSE, items |-> <<"strength">>],
      [isNone |-> FALSE, items |-> <<"strength", "weight">>],
      [isNone |-> FALSE, items |-> <<"weight", "strength">>] }

TopNs == {0, 1, 2, 5}

EmptyFrame == [columns |-> FALSE, rows |-> <<>>]

----------------------------------------------------------------------------
(* Helpers *)

Max(a, b) == IF a >= b THEN a ELSE b
Min(a, b) == IF a <= b THEN a ELSE b
Abs(a) == IF a >= 0 THEN a ELSE -a

SetMax(S) == CHOOSE m \in S : \A x \in S : x <= m
SetMin(S) == CHOOSE m \in S : \A x \in S : m <= x

Range(s) == {s[i] : i \in 1..Len(s)}

(* A slice that is off by one *)
TakeOneMore(s, n) == SubSeq(s, 1, Min(n + 1, Len(s)))

(* s[:n] of a list, DataFrame.head(n) for n >= 0 *)
Take(s, n) == SubSeq(s, 1, Min(n, Len(s)))

(* series.clip(0, 1) of the quotient num/den, den > 0: its numerator *)
Clip01(num, den) == Max(0, Min(num, den))

(* points * num / den in score units; exact for the values of the model *)
Points(points, num, den) == (points * ScoreDen * num) \div den

(* A score: points / ScoreDen + (eps / ScoreDen) * 1e-10 *)
Score(points, eps) == [points |-> points, eps |-> eps]

ScoreSum(a, b) == Score(a.points + b.points, a.eps + b.eps)

(* a > b on floats: 1e-10 is far below 1 / ScoreDen *)
ScoreGreater(a, b) ==
    \/ a.points > b.points
    \/ a.points = b.points /\ a.eps > b.eps

----------------------------------------------------------------------------
(* Construction *)

(* No key: None or "" as the argument, MP_API_KEY unset or empty *)
NoKey == ""

ApiKeyArguments == {NoKey, "key-given"}

EnvironmentKeys == {NoKey, "key-of-environment"}

(* What the service does with the status query for mp-149: it answers     *)
(* with the document, answers with none (a key it does not accept the     *)
(* query of can also end here), or the client raises.                     *)
ServiceAnswers == {"docs", "empty", "error"}

(* MaterialsProjectSource.__init__: api_key or os.getenv('MP_API_KEY') *)
MaterialsProjectSource(api_key, env) ==
    LET key == IF api_key # NoKey THEN api_key ELSE env
    IN  IF key = NoKey
        THEN [raised |-> "ValueError", api_key |-> NoKey]
        ELSE [raised |-> "none", api_key |-> key]

(* len(docs) > 0, and False for any exception *)
check_api_status(answer) ==
    IF answer = "error" THEN FALSE ELSE answer = "docs"

VerifySetupNeverRaises(status) == "none"

_verify_setup(status) == IF ~status THEN "ConnectionError" ELSE "none"

NotConstructed ==
    [state |-> "none", raised |-> "none", checks |-> 0, status |-> "unchecked"]

(* MatSelectAI.__init__: the adapter, then _verify_setup, which asks the  *)
(* adapter for its status once.  An exception leaves the caller without   *)
(* an object.                                                             *)
MatSelectAI(mp_api_key, env, answer) ==
    LET mp_source == MaterialsProjectSource(mp_api_key, env)
        status == check_api_status(answer)
        raised == _verify_setup(status)
    IN  IF mp_source.raised # "none"
        THEN [state |-> "failed", raised |-> mp_source.raised, checks |-> 0,
              status |-> "unchecked"]
        ELSE [state |-> IF raised = "none" THEN "ready" ELSE "failed",
              raised |-> raised, checks |-> 1,
              status |-> IF status THEN "ok" ELSE "failed"]

----------------------------------------------------------------------------
(* MaterialsProjectSource.search_by_properties: the service's documents,  *)
(* cut to the limit, as a DataFrame.  pd.DataFrame([]) has no columns.    *)

search_by_properties(docs, limit) ==
    LET data == Take(docs, limit)
    IN  [columns |-> Len(data) > 0, rows |-> data]

----------------------------------------------------------------------------
(* MatSelectAI._apply_filters *)

HasKey(requirements, key) == requirements[key] # Absent

DensityMask(row, requirements) ==
    row.density <= requirements.max_density

(* The ceiling taken as exclusive *)
StabilityMaskStrict(row) ==
    row.energy_above_hull < StabilityCeiling

StabilityMask(row) ==
    row.energy_above_hull <= StabilityCeiling

(* filtered[filtered['energy_above_hull'] <= 0.1] raises KeyError on a    *)
(* frame that has no such column.                                         *)
_apply_filters(candidates, requirements) ==
    IF ~candidates.columns
    THEN [raised |-> "KeyError", frame |-> EmptyFrame]
    ELSE LET ByDensity(row) == DensityMask(row, requirements)
             ByStability(row) == StabilityMask(row)
             afterDensity ==
                 IF HasKey(requirements, "max_density")
                 THEN SelectSeq(candidates.rows, ByDensity)
                 ELSE candidates.rows
         IN  [raised |-> "none",
              frame |-> [columns |-> TRUE,
                         rows |-> SelectSeq(afterDensity, ByStability)]]

----------------------------------------------------------------------------
(* MatSelectAI._score_materials *)

WantsWeight(optimize) ==
    /\ ~optimize.isNone
    /\ Len(optimize.items) > 0
    /\ "weight" \in Range(optimize.items)

(* 1 - (density - min) / (max - min + 1e-10), times 30.  With max = min   *)
(* the quotient is 0 / 1e-10 = 0.  Otherwise, with x = density - min and  *)
(* span = max - min, 1 - x / (span + e) is 1 - x / span + x * e / span^2  *)
(* to the first order in e.                                               *)
DensityScoreNotInverted(rows, row) ==
    LET ds == {r.density : r \in Range(rows)}
        lo == SetMin(ds)
        span == SetMax(ds) - lo
        x == row.density - lo
    IN  IF span = 0
        THEN Score(Points(WeightPoints, 1, 1), 0)
        ELSE Score(Points(WeightPoints, x, span),
                   Points(WeightPoints, x, span * span))

DensityScore(rows, row) ==
    LET ds == {r.density : r \in Range(rows)}
        lo == SetMin(ds)
        span == SetMax(ds) - lo
        x == row.density - lo
    IN  IF span = 0
        THEN Score(Points(WeightPoints, 1, 1), 0)
        ELSE Score(Points(WeightPoints, span - x, span),
                   Points(WeightPoints, x, span * span))

(* The stability term given the weight of the density term *)
StabilityScoreWrongWeight(row) ==
    Score(Points(WeightPoints,
                 Clip01(StabilityNorm - row.energy_above_hull, StabilityNorm),
                 StabilityNorm), 0)

(* (1 - energy_above_hull / 0.1).clip(0, 1) * 40 *)
StabilityScore(row) ==
    Score(Points(StabilityPoints,
                 Clip01(StabilityNorm - row.energy_above_hull, StabilityNorm),
                 StabilityNorm), 0)

(* (1 - |band_gap - target| / (band_gap.max() + 1)).clip(0, 1) * 30 *)
GapScore(rows, row, target) ==
    LET den == SetMax({r.band_gap : r \in Range(rows)}) + 1
    IN  Score(Points(BandGapPoints,
                     Clip01(den - Abs(row.band_gap - target), den), den), 0)

MatchScore(rows, row, requirements, optimize) ==
    LET zeros == Score(0, 0)
        s1 == IF WantsWeight(optimize)
              THEN ScoreSum(zeros, DensityScore(rows, row)) ELSE zeros
        s2 == ScoreSum(s1, StabilityScore(row))
        s3 == IF HasKey(requirements, "min_band_gap")
              THEN ScoreSum(s2, GapScore(rows, row, requirements.min_band_gap))
              ELSE s2
    IN  ScoreSum(s3, Score(BaselinePoints * ScoreDen, 0))

WithScore(r, s) ==
    [mp_id |-> r.mp_id, density |-> r.density,
     energy_above_hull |-> r.energy_above_hull, band_gap |-> r.band_gap,
     formation_energy |-> r.formation_energy, is_stable |-> r.is_stable,
     match_score |-> s]

(* A sort whose order of equal keys changes from one call to the next *)
SortsBeforeVarying(rows, tie, i, j) ==
    \/ ScoreGreater(rows[i].match_score, rows[j].match_score)
    \/ /\ rows[i].match_score = rows[j].match_score
       /\ IF op = "idle" THEN tie[i] < tie[j] ELSE tie[i] > tie[j]

(* Whether argsort puts the row at position i before the row at position  *)
(* j: the greater key first; rows with equal keys in the build's order.   *)
SortsBefore(rows, tie, i, j) ==
    \/ ScoreGreater(rows[i].match_score, rows[j].match_score)
    \/ /\ rows[i].match_score = rows[j].match_score
       /\ tie[i] < tie[j]

(* DataFrame.sort_values('match_score', ascending=False), whose default   *)
(* kind is 'quicksort': no order is promised for rows with equal keys     *)
(* (numpy's introsort partitions from 18 rows on, its SIMD sorts at any   *)
(* length).  tie ranks the positions of the frame: rows with equal keys   *)
(* come out by rising rank, which can yield any order of them.            *)
sort_values(rows, tie) ==
    LET n == Len(rows)
    IN  [k \in 1..n |->
            rows[CHOOSE i \in 1..n :
                    Cardinality({j \in 1..n : SortsBefore(rows, tie, j, i)}) = k - 1]]

_score_materials(materials, requirements, optimize, tie) ==
    LET rows == materials.rows
        scored == [i \in 1..Len(rows) |->
                      WithScore(rows[i],
                                MatchScore(rows, rows[i], requirements, optimize))]
    IN  [columns |-> materials.columns, rows |-> sort_values(scored, tie)]

----------------------------------------------------------------------------
(* MatSelectAI._enrich_materials *)

JoinReasons(parts) ==
    IF Len(parts) = 0 THEN "Meets requirements"
    ELSE IF Len(parts) = 1 THEN parts[1]
    ELSE IF Len(parts) = 2 THEN parts[1] \o "; " \o parts[2]
    ELSE parts[1] \o "; " \o parts[2] \o "; " \o parts[3]

(* row.get(key, default).  A field that holds Absent is one the row has   *)
(* no value for: the frame has no such column and the default is taken,   *)
(* or the column holds NaN there, and NaN < x is false as default < x is  *)
(* for both defaults of the Explainer.                                    *)
RowGet(row, key, default) == IF row[key] = Absent THEN default ELSE row[key]

RecommendationReasonInclusive(row) ==
    JoinReasons(
        (IF row.is_stable THEN <<"Thermodynamically stable">> ELSE <<>>)
        \o (IF RowGet(row, "density", DefaultDensity) <= LightweightBelow
            THEN <<"Lightweight">> ELSE <<>>)
        \o (IF RowGet(row, "energy_above_hull", DefaultHull) < HighlyStableBelow
            THEN <<"Highly stable">> ELSE <<>>))

RecommendationReason(row) ==
    JoinReasons(
        (IF row.is_stable THEN <<"Thermodynamically stable">> ELSE <<>>)
        \o (IF RowGet(row, "density", DefaultDensity) < LightweightBelow
            THEN <<"Lightweight">> ELSE <<>>)
        \o (IF RowGet(row, "energy_above_hull", DefaultHull) < HighlyStableBelow
            THEN <<"Highly stable">> ELSE <<>>))

WithReason(r) ==
    [mp_id |-> r.mp_id, density |-> r.density,
     energy_above_hull |-> r.energy_above_hull, band_gap |-> r.band_gap,
     formation_energy |-> r.formation_energy, is_stable |-> r.is_stable,
     match_score |-> r.match_score,
     recommendation_reason |-> RecommendationReason(r)]

_enrich_materials(materials) ==
    [columns |-> materials.columns,
     rows |-> [i \in 1..Len(materials.rows) |-> WithReason(materials.rows[i])]]

(* Scored rows the Explainer can be handed: is_stable either way, density *)
(* and energy_above_hull on both sides of their thresholds, on them, and  *)
(* without a value.                                                       *)
ScoredRows ==
    { WithScore(Material("mp-7", d, e, 0, 0, st), Score(0, 0)) :
        d \in {2, LightweightBelow, Absent},
        e \in {1, HighlyStableBelow, Absent},
        st \in BOOLEAN }

ScoredFrames ==
    UNION { { [columns |-> TRUE, rows |-> s] : s \in [1..n -> ScoredRows] } :
            n \in 1..MaxCandidates }

----------------------------------------------------------------------------
(* MatSelectAI.recommend *)

RecommendationResults(candidates, requirements, optimize_objectives, show_tradeoffs) ==
    [candidates |-> candidates, requirements |-> requirements,
     optimize_objectives |-> optimize_objectives,
     show_tradeoffs |-> show_tradeoffs]

NoRequirements == [max_density |-> Absent, min_band_gap |-> Absent]

Nothing == RecommendationResults(EmptyFrame, NoRequirements, NoObjectives, FALSE)

NoLocals ==
    [candidates |-> EmptyFrame, filtered |-> EmptyFrame, scored |-> EmptyFrame,
     top_materials |-> EmptyFrame, path |-> "none"]

(* The early return left out *)
NeverNoCandidates(candidates) == FALSE

(* len(candidates) == 0: the adapter found nothing *)
NoCandidates(candidates) == Len(candidates.rows) = 0

(* The result of the early return of line 84, which passes the            *)
(* requirements only: optimize_objectives and show_tradeoffs take the     *)
(* constructor's defaults.                                                *)
EmptyResults(requirements, optimize, show_tradeoffs) ==
    RecommendationResults(EmptyFrame, requirements, NoObjectives, FALSE)

(* One call: the locals it goes through and what the caller gets. *)
recommend(docs, requirements, optimize, show_tradeoffs, top_n, tie) ==
    LET candidates == search_by_properties(docs, SearchLimit)
        applied == _apply_filters(candidates, requirements)
        filtered == applied.frame
        scored == _score_materials(filtered, requirements, optimize, tie)
        top_materials == [columns |-> scored.columns,
                          rows |-> Take(scored.rows, top_n)]
        enriched == _enrich_materials(top_materials)
    IN  IF NoCandidates(candidates)
        THEN [locals |-> [NoLocals EXCEPT !.candidates = candidates,
                                          !.path = "empty"],
              raised |-> "none",
              value |-> EmptyResults(requirements, optimize, show_tradeoffs)]
        ELSE IF applied.raised # "none"
        THEN [locals |-> [NoLocals EXCEPT !.candidates = candidates,
                                          !.path = "raise"],
              raised |-> applied.raised,
              value |-> Nothing]
        ELSE [locals |-> [candidates |-> candidates, filtered |-> filtered,
                          scored |-> scored, top_materials |-> top_materials,
                          path |-> "full"],
              raised |-> "none",
              value |-> RecommendationResults(enriched, requirements,
                                              optimize, show_tradeoffs)]

NoCall ==
    [docs |-> <<>>, requirements |-> NoRequirements, optimize |-> NoObjectives,
     show_tradeoffs |-> FALSE, top_n |-> 0]

NoReturn == [raised |-> "none", value |-> Nothing]

----------------------------------------------------------------------------
(* MaterialsProjectSource.get_material_by_id *)

get_material_by_id(material_id) ==
    LET docs == {m \in MPDatabase : m.mp_id = material_id}
    IN  IF docs = {}
        THEN [raised |-> "ValueError", value |-> Material(material_id, 0, 0, 0, 0, FALSE)]
        ELSE [raised |-> "none", value |-> CHOOSE m \in docs : TRUE]

----------------------------------------------------------------------------
(* MatSelectAI.what_if *)

(* n / d rounded to the nearest integer, halves to the even one (numpy's   *)
(* round, on the exact quotient); d # 0.                                   *)
RoundHalfEven(n, d) ==
    LET nn == IF d < 0 THEN -n ELSE n
        dd == Abs(d)
        q == nn \div dd
        r == nn % dd
    IN  IF 2 * r < dd THEN q
        ELSE IF 2 * r > dd THEN q + 1
        ELSE IF q % 2 = 0 THEN q ELSE q + 1

Number(tenths) == [kind |-> "number", tenths |-> tenths]
NaN == [kind |-> "nan", tenths |-> 0]
PlusInf == [kind |-> "inf", tenths |-> 0]
MinusInf == [kind |-> "-inf", tenths |-> 0]

(* A zero baseline guarded by reporting no change *)
PercentDeltaZeroGuard(value, base) ==
    IF base # 0
    THEN Number(RoundHalfEven((value - base) * PercentFactor * 10, base))
    ELSE Number(0)

(* ((value - base) / base * 100).round(1) in float arithmetic: a division *)
(* by zero gives nan for 0 / 0 and an infinity otherwise.                 *)
PercentDelta(value, base) ==
    IF base # 0
    THEN Number(RoundHalfEven((value - base) * PercentFactor * 10, base))
    ELSE IF value = base THEN NaN
    ELSE IF value > base THEN PlusInf
    ELSE MinusInf

(* The lookup's ValueError not caught *)
OnNotFoundRaise(acc, mp_id) == [acc EXCEPT !.raised = "ValueError"]

(* except ValueError: a warning is printed and the loop goes on *)
OnNotFound(acc, mp_id) == acc

FetchOne(acc, mp_id) ==
    LET got == get_material_by_id(mp_id)
    IN  IF got.raised = "none"
        THEN [acc EXCEPT !.data = Append(@, got.value)]
        ELSE OnNotFound(acc, mp_id)

RECURSIVE FetchAll(_, _)
FetchAll(ids, acc) ==
    IF ids = <<>> \/ acc.raised # "none"
    THEN acc
    ELSE FetchAll(Tail(ids), FetchOne(acc, Head(ids)))

(* df.iloc[0] *)
BaselineRow(rows) == rows[1]

DeltaRow(row, baseline) ==
    [density |-> PercentDelta(row.density, baseline.density),
     band_gap |-> PercentDelta(row.band_gap, baseline.band_gap),
     formation_energy |->
         PercentDelta(row.formation_energy, baseline.formation_energy)]

what_if(baseline_material, alternative_materials, show_savings) ==
    LET materials_to_compare == <<baseline_material>> \o alternative_materials
        fetched == FetchAll(materials_to_compare, [raised |-> "none", data |-> <<>>])
        rows == fetched.data
        savings == show_savings /\ Len(rows) > 1
    IN  IF fetched.raised # "none"
        THEN [raised |-> fetched.raised, rows |-> <<>>,
              has_deltas |-> FALSE, deltas |-> <<>>]
        ELSE [raised |-> "none", rows |-> rows, has_deltas |-> savings,
              deltas |-> IF savings
                         THEN [i \in 1..Len(rows) |->
                                  DeltaRow(rows[i], BaselineRow(rows))]
                         ELSE <<>>]

IdLists ==
    UNION { [1..n -> MaterialIds] : n \in 0..MaxAlternatives }

NoWhatIf ==
    [baseline_material |-> MissingId, alternative_materials |-> <<>>,
     show_savings |-> FALSE]

NoTable == [raised |-> "none", rows |-> <<>>, has_deltas |-> FALSE, deltas |-> <<>>]

----------------------------------------------------------------------------
(* The state machine.  The object holds no state between calls but its     *)
(* adapter; the variables record the call in hand, its locals and its      *)
(* result, until the caller lets go of the result and makes the next call. *)

(* Before construction.  The order in which the build's argsort leaves    *)
(* equal keys can be any, and is the same at every call: the sort draws   *)
(* nothing at random.                                                     *)
Init ==
    /\ ai = NotConstructed
    /\ tieOrder \in Permutations(1..MaxCandidates)
    /\ op = "idle"
    /\ rq = NoCall
    /\ lc = NoLocals
    /\ ret = NoReturn
    /\ ret2 = NoReturn
    /\ wq = NoWhatIf
    /\ wret = NoTable
    /\ eq = EmptyFrame
    /\ eret = EmptyFrame

(* MatSelectAI(mp_api_key): the first construction, or one more after a   *)
(* construction that raised.                                              *)
Construct ==
    /\ ai.state # "ready"
    /\ \E mp_api_key \in ApiKeyArguments, env \in EnvironmentKeys,
          answer \in ServiceAnswers :
        ai' = MatSelectAI(mp_api_key, env, answer)
    /\ UNCHANGED <<tieOrder, op, rq, lc, ret, ret2, wq, wret, eq, eret>>

(* The methods are called on the object the constructor returned *)
Recommend ==
    /\ ai.state = "ready"
    /\ op = "idle"
    /\ \E docs \in DocLists, requirements \in Requirements, optimize \in Objectives,
       show_tradeoffs \in BOOLEAN, top_n \in TopNs :
        LET r == recommend(docs, requirements, optimize, show_tradeoffs, top_n,
                           tieOrder)
        IN  /\ op' = "recommend"
            /\ rq' = [docs |-> docs, requirements |-> requirements,
                      optimize |-> optimize, show_tradeoffs |-> show_tradeoffs,
                      top_n |-> top_n]
            /\ lc' = r.locals
            /\ ret' = [raised |-> r.raised, value |-> r.value]
            /\ ret2' = NoReturn
            /\ wq' = NoWhatIf
            /\ wret' = NoTable
            /\ UNCHANGED <<ai, tieOrder, eq, eret>>

(* The same call again: the same arguments, the adapter answering the same *)
RecommendAgain ==
    /\ op = "recommend"
    /\ LET r == recommend(rq.docs, rq.requirements, rq.optimize,
                          rq.show_tradeoffs, rq.top_n, tieOrder)
       IN  /\ op' = "recommend_again"
           /\ ret2' = [raised |-> r.raised, value |-> r.value]
           /\ UNCHANGED <<ai, tieOrder, rq, lc, ret, wq, wret, eq, eret>>

WhatIf ==
    /\ ai.state = "ready"
    /\ op = "idle"
    /\ \E baseline_material \in MaterialIds, alternative_materials \in IdLists,
       show_savings \in BOOLEAN :
        /\ op' = "what_if"
        /\ wq' = [baseline_material |-> baseline_material,
                  alternative_materials |-> alternative_materials,
                  show_savings |-> show_savings]
        /\ wret' = what_if(baseline_material, alternative_materials, show_savings)
        /\ rq' = NoCall
        /\ lc' = NoLocals
        /\ ret' = NoReturn
        /\ ret2' = NoReturn
        /\ UNCHANGED <<ai, tieOrder, eq, eret>>

(* The Explainer on a frame of scored rows *)
Explain ==
    /\ ai.state = "ready"
    /\ op = "idle"
    /\ \E materials \in ScoredFrames :
        /\ op' = "explain"
        /\ eq' = materials
        /\ eret' = _enrich_materials(materials)
        /\ UNCHANGED <<ai, tieOrder, rq, lc, ret, ret2, wq, wret>>

(* The caller is done with the result; the next call can be any call. *)
Forget ==
    /\ op # "idle"
    /\ op' = "idle"
    /\ rq' = NoCall
    /\ lc' = NoLocals
    /\ ret' = NoReturn
    /\ ret2' = NoReturn
    /\ wq' = NoWhatIf
    /\ wret' = NoTable
    /\ eq' = EmptyFrame
    /\ eret' = EmptyFrame
    /\ UNCHANGED <<ai, tieOrder>>

Next == Construct \/ Recommend \/ RecommendAgain \/ WhatIf \/ Explain \/ Forget

Spec == Init /\ [][Next]_vars

----------------------------------------------------------------------------
(* Properties *)

RECURSIVE IsSubsequence(_, _)
IsSubsequence(a, b) ==
    IF a = <<>> THEN TRUE
    ELSE IF b = <<>> THEN FALSE
    ELSE IF Head(a) = Head(b) THEN IsSubsequence(Tail(a), Tail(b))
    ELSE IsSubsequence(a, Tail(b))

PositionOf(rows, id) == CHOOSE i \in 1..Len(rows) : rows[i].mp_id = id

Recommended == op \in {"recommend", "recommend_again"}

(* The pipeline ran: the adapter found something and nothing was raised *)
Ranked == Recommended /\ lc.path = "full"

(* The active constraints of a requirement set, as the claims state them: *)
(* energy_above_hull <= 0.1 and, with max_density given, density <= it.   *)
MeetsConstraints(row, requirements) ==
    /\ row.energy_above_hull <= 10
    /\ requirements.max_density # Absent => row.density <= requirements.max_density

(* Every quotient of the scoring formulas is a whole number of score units *)
ScoresExact ==
    Ranked =>
        LET rows == lc.filtered.rows
            ds == {r.density : r \in Range(rows)}
            lo == SetMin(ds)
            span == SetMax(ds) - lo
            den == SetMax({r.band_gap : r \in Range(rows)}) + 1
        IN  \A r \in Range(rows) :
                /\ span # 0 =>
                       (WeightPoints * ScoreDen * (r.density - lo)) % (span * span) = 0
                /\ (StabilityPoints * ScoreDen
                       * Clip01(StabilityNorm - r.energy_above_hull, StabilityNorm))
                      % StabilityNorm = 0
                /\ \A t \in {q.min_band_gap : q \in Requirements} \ {Absent} :
                       (BandGapPoints * ScoreDen
                          * Clip01(den - Abs(r.band_gap - t), den)) % den = 0

(* C1: the Constraint Filter returns a subsequence of its input, in the   *)
(* input's order and with nothing added; every record it keeps has        *)
(* energy_above_hull <= 0.1 and, when max_density is required, density <= *)
(* max_density; every record it rejects violates one of these.            *)
C1_FilterIsExactSubsequence ==
    Ranked =>
        LET input == lc.candidates.rows
            output == lc.filtered.rows
        IN  /\ IsSubsequence(output, input)
            /\ \A r \in Range(output) : MeetsConstraints(r, rq.requirements)
            /\ \A r \in Range(input) \ Range(output) :
                   ~MeetsConstraints(r, rq.requirements)

(* A call whose filter kept one record and rejected, for its density      *)
(* alone, another that came before it.                                    *)
C1_Witness ==
    /\ op = "recommend"
    /\ lc.path = "full"
    /\ rq.requirements.max_density # Absent
    /\ Len(lc.candidates.rows) = 2
    /\ Len(lc.filtered.rows) = 1
    /\ lc.filtered.rows[1] = lc.candidates.rows[2]
    /\ lc.candidates.rows[1].energy_above_hull <= 10

(* C2: the ranked sequence is sorted by match_score, highest first, and    *)
(* two candidates with equal match_score keep the relative order they had *)
(* before the sort.                                                       *)
C2_SortedDescendingAndStable ==
    Ranked =>
        LET before == lc.filtered.rows
            after == lc.scored.rows
        IN  \A i, j \in 1..Len(after) :
                i < j =>
                    /\ ~ScoreGreater(after[j].match_score, after[i].match_score)
                    /\ after[i].match_score = after[j].match_score =>
                           PositionOf(before, after[i].mp_id)
                               < PositionOf(before, after[j].mp_id)

NoObjectivesGiven(optimize) == optimize.isNone \/ Len(optimize.items) = 0

(* 10 + 40 * clip(1 - energy_above_hull / 0.1, 0, 1), in score units, for *)
(* energy_above_hull >= 0 in hundredths of an eV/atom                     *)
StabilityPlusBaseline(e) ==
    IF e >= 10
    THEN Score(10 * ScoreDen, 0)
    ELSE Score((10 * ScoreDen) + (4 * ScoreDen * (10 - e)), 0)

(* C4: with no objectives and no min_band_gap, match_score is             *)
(* 10 + 40 * clip(1 - energy_above_hull / 0.1, 0, 1): 50 on the hull, 30  *)
(* at 0.05, 10 at the 0.1 ceiling, and never higher for a higher          *)
(* energy_above_hull.                                                     *)
C4_ScoreIsStabilityPlusBaseline ==
    (/\ Ranked
     /\ NoObjectivesGiven(rq.optimize)
     /\ rq.requirements.min_band_gap = Absent) =>
        LET rows == lc.scored.rows
        IN  /\ \A r \in Range(rows) :
                   /\ r.match_score = StabilityPlusBaseline(r.energy_above_hull)
                   /\ r.energy_above_hull = 0 => r.match_score = Score(50 * ScoreDen, 0)
                   /\ r.energy_above_hull = 5 => r.match_score = Score(30 * ScoreDen, 0)
                   /\ r.energy_above_hull = 10 => r.match_score = Score(10 * ScoreDen, 0)
            /\ \A r1, r2 \in Range(rows) :
                   r1.energy_above_hull <= r2.energy_above_hull =>
                       ~ScoreGreater(r2.match_score, r1.match_score)

(* A call without objectives or min_band_gap that scored an on-hull       *)
(* candidate and one at the ceiling.                                      *)
C4_Witness ==
    /\ op = "recommend"
    /\ lc.path = "full"
    /\ rq.optimize.isNone
    /\ rq.requirements.min_band_gap = Absent
    /\ \E r1, r2 \in Range(lc.scored.rows) :
           /\ r1.energy_above_hull = 0 /\ r1.match_score = Score(50 * ScoreDen, 0)
           /\ r2.energy_above_hull = 10 /\ r2.match_score = Score(10 * ScoreDen, 0)

ScoredIds(rows) == [i \in 1..Len(rows) |-> <<rows[i].mp_id, rows[i].match_score>>]

(* C5: recommend returns exactly the first min(top_n, k) candidates of    *)
(* the ranked sequence, k being the number of candidates the filter kept. *)
C5_ResultIsTopPrefix ==
    (Recommended /\ ret.raised = "none") =>
        LET k == IF lc.path = "full" THEN Len(lc.filtered.rows) ELSE 0
            n == IF rq.top_n <= k THEN rq.top_n ELSE k
            got == ret.value.candidates.rows
        IN  /\ Len(got) = n
            /\ ScoredIds(got) = ScoredIds(SubSeq(lc.scored.rows, 1, n))

(* A call with top_n = 1 and two ranked candidates of different scores:   *)
(* the result is the better one alone.                                    *)
C5_Witness ==
    /\ op = "recommend"
    /\ rq.top_n = 1
    /\ Len(lc.scored.rows) = 2
    /\ ScoreGreater(lc.scored.rows[1].match_score, lc.scored.rows[2].match_score)
    /\ Len(ret.value.candidates.rows) = 1
    /\ ret.value.candidates.rows[1].mp_id = lc.scored.rows[1].mp_id

Found(id) == \E m \in MPDatabase : m.mp_id = id

RecordOf(id) == CHOOSE m \in MPDatabase : m.mp_id = id

Compared == <<wq.baseline_material>> \o wq.alternative_materials

(* C6: what_if leaves out every identifier the adapter does not find and  *)
(* does not raise; the rows of its table are the records of the found     *)
(* identifiers, in the order of [baseline, ...alternatives].              *)
C6_NotFoundSkipped ==
    op = "what_if" =>
        LET found == SelectSeq(Compared, Found)
        IN  /\ wret.raised = "none"
            /\ wret.rows = [i \in 1..Len(found) |-> RecordOf(found[i])]

(* A comparison whose second identifier is not found and whose first and  *)
(* third are: the table holds these two.                                  *)
C6_Witness ==
    /\ op = "what_if"
    /\ Len(Compared) = 3
    /\ Found(Compared[1]) /\ ~Found(Compared[2]) /\ Found(Compared[3])
    /\ wret.raised = "none"
    /\ Len(wret.rows) = 2

Columns == {"density", "band_gap", "formation_energy"}

(* C7: when more than one record was fetched, every percentage delta is   *)
(* (value - baseline_value) / baseline_value * 100 rounded to one         *)
(* decimal, baseline_value being the value in the record of the baseline  *)
(* identifier the caller passed (stated for the columns where that value  *)
(* is not zero); a row with the baseline's value has a delta of 0.0.      *)
C7_DeltaAgainstBaselineIdentifier ==
    (op = "what_if" /\ wret.raised = "none" /\ Len(wret.rows) > 1 /\ wret.has_deltas) =>
        /\ Found(wq.baseline_material)
        /\ LET base == RecordOf(wq.baseline_material)
           IN  \A i \in 1..Len(wret.rows), c \in Columns :
                   base[c] # 0 =>
                       /\ wret.deltas[i][c]
                              = Number(RoundHalfEven((wret.rows[i][c] - base[c]) * 1000,
                                                     base[c]))
                       /\ wret.rows[i][c] = base[c] => wret.deltas[i][c] = Number(0)

(* C8 as stated: a zero baseline value does not make what_if raise, all   *)
(* fetched rows are returned, every delta of that column is NaN and the   *)
(* deltas of the other columns are numbers.                               *)
C8_ZeroBaselineGivesNaN ==
    (op = "what_if" /\ wret.has_deltas) =>
        /\ wret.raised = "none"
        /\ Len(wret.deltas) = Len(wret.rows)
        /\ \A i \in 1..Len(wret.rows), c \in Columns :
               IF wret.rows[1][c] = 0
               THEN wret.deltas[i][c] = NaN
               ELSE wret.deltas[i][c].kind = "number"

(* C8 as amended: a zero value in the first fetched row (the row the      *)
(* deltas are taken against) does not make what_if raise, all fetched     *)
(* rows are returned, and every delta of that column is not a number but  *)
(* NaN where the row's value is zero too, +infinity where it is positive  *)
(* and -infinity where it is negative; the deltas of the other columns    *)
(* are numbers.                                                           *)
C8_ZeroBaselineGivesNonFinite ==
    (op = "what_if" /\ wret.has_deltas) =>
        /\ wret.raised = "none"
        /\ Len(wret.deltas) = Len(wret.rows)
        /\ \A i \in 1..Len(wret.rows), c \in Columns :
               IF wret.rows[1][c] = 0
               THEN /\ wret.deltas[i][c].kind # "number"
                    /\ wret.rows[i][c] = 0 => wret.deltas[i][c] = NaN
                    /\ wret.rows[i][c] > 0 => wret.deltas[i][c] = PlusInf
                    /\ wret.rows[i][c] < 0 => wret.deltas[i][c] = MinusInf
               ELSE wret.deltas[i][c].kind = "number"

(* A comparison against a baseline of band gap 0 and formation energy 0   *)
(* with an alternative of positive band gap and negative formation energy *)
C8_Witness ==
    /\ op = "what_if"
    /\ wret.has_deltas
    /\ wret.rows[1].band_gap = 0
    /\ wret.rows[1].formation_energy = 0
    /\ wret.rows[2].band_gap > 0
    /\ wret.rows[2].formation_energy < 0
    /\ wret.deltas[2].band_gap = PlusInf
    /\ wret.deltas[2].formation_energy = MinusInf
    /\ wret.deltas[2].density.kind = "number"

(* C9: recommend does not raise, and returns a result with no candidates, *)
(* both when the adapter finds nothing and when the adapter finds records *)
(* and the filter rejects them all.                                       *)
C9_NoMatchIsEmptyResult ==
    (/\ Recommended
     /\ \A i \in 1..Len(rq.docs) : ~MeetsConstraints(rq.docs[i], rq.requirements)) =>
        /\ ret.raised = "none"
        /\ ret.value.candidates.rows = <<>>

(* A call for which the adapter found two records, both rejected *)
C9_Witness ==
    /\ op = "recommend"
    /\ Len(rq.docs) = 2
    /\ rq.top_n > 0
    /\ \A i \in 1..2 : ~MeetsConstraints(rq.docs[i], rq.requirements)
    /\ lc.path = "full"
    /\ ret.raised = "none"
    /\ ret.value.candidates.rows = <<>>

(* C10: every result of recommend, the empty one included, carries the    *)
(* requirements and the objectives the caller passed.                     *)
C10_ResultCarriesArguments ==
    (Recommended /\ ret.raised = "none") =>
        /\ ret.value.requirements = rq.requirements
        /\ ret.value.optimize_objectives = rq.optimize

(* The rationale the three conditions of a row call for *)
Rationale(stable, light, highly) ==
    IF stable /\ light /\ highly
        THEN "Thermodynamically stable; Lightweight; Highly stable"
    ELSE IF stable /\ light THEN "Thermodynamically stable; Lightweight"
    ELSE IF stable /\ highly THEN "Thermodynamically stable; Highly stable"
    ELSE IF light /\ highly THEN "Lightweight; Highly stable"
    ELSE IF stable THEN "Thermodynamically stable"
    ELSE IF light THEN "Lightweight"
    ELSE IF highly THEN "Highly stable"
    ELSE "Meets requirements"

Explains(given, row) ==
    row.recommendation_reason =
        Rationale(given.is_stable,
                  given.density # Absent /\ given.density < 5,
                  given.energy_above_hull # Absent /\ given.energy_above_hull < 2)

(* C11: the rationale of every row the Explainer returns, from recommend  *)
(* or on a frame of its own, is fixed by the is_stable, density and       *)
(* energy_above_hull of the row it was given at that position: it holds   *)
(* "Thermodynamically stable" exactly when is_stable, "Lightweight"       *)
(* exactly when density < 5.0 (a row with no density is not lightweight,  *)
(* as density 10.0 is not) and "Highly stable" exactly when               *)
(* energy_above_hull < 0.02, in that order and joined by "; ", and it is  *)
(* "Meets requirements" exactly when none of the three holds.             *)
C11_RationaleFromThreeConditions ==
    /\ op = "explain" =>
        /\ Len(eret.rows) = Len(eq.rows)
        /\ \A i \in 1..Len(eret.rows) : Explains(eq.rows[i], eret.rows[i])
    /\ Recommended /\ lc.path = "full" =>
        /\ Len(ret.value.candidates.rows) = Len(lc.top_materials.rows)
        /\ \A i \in 1..Len(ret.value.candidates.rows) :
              Explains(lc.top_materials.rows[i], ret.value.candidates.rows[i])

(* A stable, light row well under the hull threshold gets the three       *)
(* phrases; a row with no density and neither of the other two gets       *)
(* "Meets requirements".                                                  *)
C11_Witness ==
    /\ op = "explain"
    /\ \E i, j \in 1..Len(eret.rows) :
        /\ eret.rows[i].recommendation_reason =
              "Thermodynamically stable; Lightweight; Highly stable"
        /\ eq.rows[j].density = Absent
        /\ ~eq.rows[j].is_stable
        /\ eq.rows[j].energy_above_hull = HighlyStableBelow
        /\ eret.rows[j].recommendation_reason = "Meets requirements"

(* What match_score holds besides the weight term: the baseline, the      *)
(* stability term and, with min_band_gap required, the band gap term.     *)
(* None of them reads density.                                            *)
ScoreWithoutWeight(rows, row, requirements) ==
    IF requirements.min_band_gap = Absent
    THEN StabilityPlusBaseline(row.energy_above_hull)
    ELSE ScoreSum(StabilityPlusBaseline(row.energy_above_hull),
                  GapScore(rows, row, requirements.min_band_gap))

(* The weight term of a scored row: what its match_score holds beyond that *)
WeightTerm(rows, row, requirements) ==
    LET rest == ScoreWithoutWeight(rows, row, requirements)
    IN  Score(row.match_score.points - rest.points,
              row.match_score.eps - rest.eps)

WeightAmong(optimize) ==
    ~optimize.isNone /\ \E k \in 1..Len(optimize.items) : optimize.items[k] = "weight"

(* C12: with "weight" among the objectives, at any position, every        *)
(* candidate's match_score holds a weight term that lies in [0, 30], is   *)
(* never smaller for a candidate of strictly lower density than another   *)
(* of the batch, is 30 for a candidate of the lowest density, and is 30   *)
(* for every candidate when all densities of the batch are equal (a       *)
(* batch of one included).  Without "weight" among the objectives no      *)
(* weight term is added: match_score is the sum of the terms that do not  *)
(* read density.                                                          *)
C12_WeightTermOnlyWithWeightObjective ==
    Ranked =>
        LET rows == lc.scored.rows
            term(r) == WeightTerm(rows, r, rq.requirements)
            thirty == Score(30 * ScoreDen, 0)
        IN  IF WeightAmong(rq.optimize)
            THEN /\ \A r \in Range(rows) :
                       /\ ~ScoreGreater(Score(0, 0), term(r))
                       /\ ~ScoreGreater(term(r), thirty)
                       /\ (\A q \in Range(rows) : r.density <= q.density) =>
                              term(r) = thirty
                 /\ \A r1, r2 \in Range(rows) :
                       r1.density < r2.density =>
                           ~ScoreGreater(term(r2), term(r1))
                 /\ (\A r1, r2 \in Range(rows) : r1.density = r2.density) =>
                       \A r \in Range(rows) : term(r) = thirty
            ELSE \A r \in Range(rows) : term(r) = Score(0, 0)

(* "weight" given after another objective, two candidates of different    *)
(* densities: 30 for the lighter, less for the heavier.                   *)
C12_Witness ==
    /\ op = "recommend"
    /\ lc.path = "full"
    /\ rq.optimize.items = <<"strength", "weight">>
    /\ \E r1, r2 \in Range(lc.scored.rows) :
           /\ r1.density < r2.density
           /\ WeightTerm(lc.scored.rows, r1, rq.requirements) = Score(30 * ScoreDen, 0)
           /\ ScoreGreater(Score(30 * ScoreDen, 0),
                           WeightTerm(lc.scored.rows, r2, rq.requirements))

(* The core has asked the adapter for a search or for a record by id *)
AdapterCalled == op \in {"recommend", "recommend_again", "what_if"}

(* How a construction can have ended *)
ConstructedOrRaised ==
    /\ ai.state = "ready" =>
          ai.raised = "none" /\ ai.checks = 1 /\ ai.status = "ok"
    /\ ai.status = "failed" =>
          ai.state = "failed" /\ ai.raised = "ConnectionError" /\ ai.checks = 1
    /\ ai.raised = "ValueError" =>
          ai.state = "failed" /\ ai.checks = 0 /\ ai.status = "unchecked"
    /\ ai.state = "failed" => ai.raised \in {"ValueError", "ConnectionError"}
    /\ ai.checks <= 1

(* C13: no recommend or what_if call proceeds on a MatSelectAI whose       *)
(* startup status check failed.  A construction that has a key asks the   *)
(* adapter for its status exactly once, and no construction more than     *)
(* once; a false answer raises ConnectionError and a missing key raises   *)
(* ValueError (before the adapter can be asked), leaving no object.  So   *)
(* every step that issues an adapter search or get-by-id call starts from *)
(* an object whose one status check succeeded, and the call asks for no   *)
(* further status check.                                                  *)
C13_NoCallBeforeSuccessfulStatusCheck ==
    /\ [](ConstructedOrRaised /\ (AdapterCalled => ai.status = "ok"))
    /\ [][(op' # op /\ op' \in {"recommend", "recommend_again", "what_if"}) =>
            (ai.state = "ready" /\ ai.status = "ok" /\ ai.checks = 1 /\ ai' = ai)]_vars

(* The status check of a construction with a key came back false: the     *)
(* constructor raised, once asked, and no call has been made.             *)
C13_Witness ==
    /\ ai.state = "failed"
    /\ ai.raised = "ConnectionError"
    /\ ai.status = "failed"
    /\ ai.checks = 1
    /\ ~AdapterCalled

=============================================================================
